---------------------------- MODULE Spec2Model ----------------------------
(***************************************************************************)
(* The points / leaderboard / redemption ledger of the student platform    *)
(* (src/app/crud.py over the tables of src/app/models.py, stored in the    *)
(* SQLite database of src/app/database.py).                                *)
(*                                                                         *)
(* Tables are sequences of rows; a row's primary key is its index (SQLite  *)
(* autoincrement from 1, rows are never deleted).  Columns that no         *)
(* modelled operation reads (titles, descriptions, timestamps, ...) are    *)
(* left out of the rows.                                                   *)
(***************************************************************************)
EXTENDS Integers, Sequences, FiniteSets, TLC

\* ------------------------------------------------------------------ bounds
MaxUsers     == 2      \* user ids 1..MaxUsers are passed to the operations
MaxGames     == 1      \* rows of table games
MaxQuestions == 3      \* rows of table game_questions
MaxResults   == 2      \* rows of table game_results
MaxRewards   == 1      \* rows of table rewards
MaxClaims    == 2      \* rows of table reward_claims
MaxClaimants == 1      \* users 1..MaxClaimants earn points and claim rewards

UserIds    == 1..MaxUsers
Claimants  == 1..MaxClaimants
GameIds    == 1..(MaxGames + 1)        \* one id more than can exist: an unknown game
RewardIds  == 1..(MaxRewards + 1)      \* one id more than can exist: an unknown reward
Sessions   == {1, 2}                   \* two requests may be in progress at once

\* ------------------------------------------------------------- input sets
CorrectAnswers == {"a", ""}            \* GameQuestionCreate.correct_answer
AnswerValues   == {"a", "b", ""}       \* values of GameSubmission.answers
PointsBases    == {0, 20, 60}          \* GameCreate.points_reward
PointCosts     == {100}                \* RewardCreate.points_required
StockValues    == {0, 1, 2}            \* RewardCreate.stock_quantity, new_stock

None == 0                              \* Python None where a row (id) is returned

\* ------------------------------------------------ multi-limb naturals
\* A natural number as a little-endian sequence of limbs below LimbBase with
\* no leading zero limb; every intermediate product stays below 2^31.
LimbBase == 2^15

RECURSIVE BigNorm(_)
BigNorm(P) ==
    IF P = <<>> THEN <<>>
    ELSE IF P[Len(P)] = 0 THEN BigNorm(SubSeq(P, 1, Len(P) - 1)) ELSE P

RECURSIVE IntToBig(_)
IntToBig(n) ==
    IF n = 0 THEN <<>> ELSE <<n % LimbBase>> \o IntToBig(n \div LimbBase)

RECURSIVE BigToInt(_)
BigToInt(P) ==
    IF P = <<>> THEN 0 ELSE P[1] + LimbBase * BigToInt(Tail(P))

RECURSIVE BigMulCarry(_, _, _)
BigMulCarry(P, k, carry) ==
    IF P = <<>> THEN IntToBig(carry)
    ELSE LET t == P[1] * k + carry
         IN  <<t % LimbBase>> \o BigMulCarry(Tail(P), k, t \div LimbBase)

BigMulSmall(P, k) == BigNorm(BigMulCarry(P, k, 0))

RECURSIVE BigDivRem(_, _, _)
BigDivRem(P, d, i) ==
    IF i > Len(P) THEN [q |-> <<>>, r |-> 0]
    ELSE LET hi == BigDivRem(P, d, i + 1)
             t  == hi.r * LimbBase + P[i]
         IN  [q |-> <<t \div d>> \o hi.q, r |-> t % d]

BigDivSmall(P, d) ==
    LET qr == BigDivRem(P, d, 1) IN [q |-> BigNorm(qr.q), r |-> qr.r]

RECURSIVE IntBitLen(_)
IntBitLen(n) == IF n = 0 THEN 0 ELSE 1 + IntBitLen(n \div 2)

LimbBits == IntBitLen(LimbBase) - 1

BitLen(P) ==
    IF P = <<>> THEN 0 ELSE LimbBits * (Len(P) - 1) + IntBitLen(P[Len(P)])

RECURSIVE BigInc(_)
BigInc(P) ==
    IF P = <<>> THEN <<1>>
    ELSE IF P[1] + 1 < LimbBase THEN <<P[1] + 1>> \o Tail(P)
    ELSE <<0>> \o BigInc(Tail(P))

Min(a, b) == IF a < b THEN a ELSE b

RECURSIVE BigShl(_, _)
BigShl(P, k) ==
    IF k = 0 THEN P
    ELSE LET s == Min(k, LimbBits - 1) IN BigShl(BigMulSmall(P, 2^s), k - s)

RECURSIVE BigShr(_, _)
BigShr(P, k) ==
    IF k = 0 THEN P
    ELSE LET s == Min(k, LimbBits - 1) IN BigShr(BigDivSmall(P, 2^s).q, k - s)

\* ------------------------------------------------- Python float (binary64)
\* A non-negative double is [m, e], the value m * 2^e with m a MantBits-bit
\* natural (or m = <<>>, e = 0 for 0.0).  Every operation rounds its exact
\* result to nearest, ties to even, as IEEE 754 does.
MantBits == 52 + 1                     \* 52 stored bits and the implicit one

FloatZero == [m |-> <<>>, e |-> 0]

\* the double nearest to (P / D) * 2^e
RECURSIVE RoundRatio(_, _, _)
RoundRatio(P, D, e) ==
    IF P = <<>> THEN FloatZero
    ELSE IF BigDivSmall(P, D).q = <<>>
    THEN RoundRatio(BigShl(P, IntBitLen(D)), D, e - IntBitLen(D))
    ELSE
    LET bl == BitLen(BigDivSmall(P, D).q)
        up == IF bl < MantBits THEN MantBits - bl ELSE 0
        dn == IF bl > MantBits THEN bl - MantBits ELSE 0
        P2 == BigShl(P, up)
        D2 == D * 2^dn
        qr == BigDivSmall(P2, D2)
        roundUp == \/ 2 * qr.r > D2
                   \/ 2 * qr.r = D2 /\ qr.q[1] % 2 = 1
        m1 == IF roundUp THEN BigInc(qr.q) ELSE qr.q
    IN  IF BitLen(m1) > MantBits
        THEN [m |-> BigDivSmall(m1, 2).q, e |-> e - up + dn + 1]
        ELSE [m |-> m1, e |-> e - up + dn]

IntTrueDiv(a, b)  == RoundRatio(IntToBig(a), b, 0)            \* a / b on ints
FloatMulInt(x, k) == RoundRatio(BigMulSmall(x.m, k), 1, x.e)  \* x * k
FloatDivInt(x, k) == RoundRatio(x.m, k, x.e)                  \* x / k

\* int(x): truncation toward zero
FloatTrunc(x) ==
    IF x.m = <<>> THEN 0
    ELSE IF x.e >= 0 THEN BigToInt(BigShl(x.m, x.e))
    ELSE BigToInt(BigShr(x.m, -x.e))

\* x has no fractional part
FloatIsInt(x) ==
    \/ x.m = <<>>
    \/ x.e >= 0
    \/ BigShl(BigShr(x.m, -x.e), -x.e) = x.m

FloatOfInt(n) == RoundRatio(IntToBig(n), 1, 0)

\* ------------------------------------------------------------------ state
VARIABLES
    users,           \* table users:          <<[email, phone, telegram_id, full_name]>>
    games,           \* table games:          <<[points_reward]>>
    game_questions,  \* table game_questions: <<[game_id, correct_answer, order_index]>>
    game_results,    \* table game_results:   <<[user_id, game_id, score, total_points]>>
    rewards,         \* table rewards:        <<[points_required, stock_quantity, is_available]>>
    reward_claims,   \* table reward_claims:  <<[user_id, reward_id, status]>>
    sess,            \* the database session of each request in progress
    last,            \* the last call of submit_game_answers: arguments and returned row
    reply            \* the last read operation: its name, arguments and return value

tables == <<users, games, game_questions, game_results, rewards, reward_claims>>
vars   == <<users, games, game_questions, game_results, rewards, reward_claims, sess, last, reply>>

\* str(n) of a natural number
Digits == <<"0", "1", "2", "3", "4", "5", "6", "7", "8", "9">>
RECURSIVE Str(_)
Str(n) == IF n < 10 THEN Digits[n + 1] ELSE Str(n \div 10) \o Digits[(n % 10) + 1]

\* the dicts a request can send: keys are string ids of question rows
AnswerKeys  == {Str(i) : i \in 1..MaxQuestions}
AnswerDicts == UNION {[K -> AnswerValues] : K \in SUBSET AnswerKeys}

\* the question lists (of correct answers) a game can be created with
QuestionLists == UNION {[1..n -> CorrectAnswers] : n \in 0..MaxQuestions}

Call(user_id, game_id, ret, new) ==
    [user_id |-> user_id, game_id |-> game_id, ret |-> ret, new |-> new]

\* a session with nothing pending
IdleSession ==
    [pc |-> "idle", user_id |-> 0, reward_id |-> 0, found |-> FALSE,
     stock_quantity |-> 0, is_available |-> FALSE,
     dirty_stock |-> FALSE, dirty_available |-> FALSE,
     game_id |-> 0, score |-> FloatZero, total_points |-> 0]

\* the reply of a read operation that returns a number or None (ret), and of
\* one that returns a list (rows)
Reply(op, args, ret) ==
    [op |-> op, args |-> args, ret |-> ret, rows |-> <<>>, error |-> ""]

Listing(op, args, rows) ==
    [op |-> op, args |-> args, ret |-> None, rows |-> rows, error |-> ""]

\* the reply of a handler that answers with an error message
Refusal(op, args, error) ==
    [op |-> op, args |-> args, ret |-> None, rows |-> <<>>, error |-> error]

Init ==
    /\ users = <<>>
    /\ games = <<>>
    /\ game_questions = <<>>
    /\ game_results = <<>>
    /\ rewards = <<>>
    /\ reward_claims = <<>>
    /\ sess = [s \in Sessions |-> IdleSession]
    /\ last = Call(0, 0, None, FALSE)
    /\ reply = Reply("", <<>>, None)

\* ---------------------------------------------------------------- queries
\* .first() of a query without ORDER BY: the matching row of lowest rowid
FirstOf(S) == IF S = {} THEN None ELSE CHOOSE i \in S : \A j \in S : i <= j

get_game(game_id) == FirstOf({g \in 1..Len(games) : g = game_id})

\* ids of the game's questions, ordered by order_index
get_game_questions(game_id) ==
    LET ids == {q \in 1..Len(game_questions) : game_questions[q].game_id = game_id}
        Pos(q) == Cardinality({p \in ids :
                     \/ game_questions[p].order_index < game_questions[q].order_index
                     \/ /\ game_questions[p].order_index = game_questions[q].order_index
                        /\ p <= q})
    IN  [i \in 1..Cardinality(ids) |-> CHOOSE q \in ids : Pos(q) = i]

\* the lookup with its two ids taken in the order of submit_game_answers'
\* own parameters (game first), the filter comparing each with the wrong column
get_user_game_results_swapped(user_id, game_id) ==
    FirstOf({r \in 1..Len(game_results) :
                /\ game_results[r].user_id = game_id
                /\ game_results[r].game_id = user_id})

get_user_game_results(user_id, game_id) ==
    FirstOf({r \in 1..Len(game_results) :
                /\ game_results[r].user_id = user_id
                /\ game_results[r].game_id = game_id})

RECURSIVE SumPoints(_, _)
SumPoints(results, S) ==
    IF S = {} THEN 0
    ELSE LET r == CHOOSE x \in S : TRUE
         IN  results[r].total_points + SumPoints(results, S \ {r})

\* func.sum(total_points) over the user's results; "or 0" when there are none
TotalPointsIn(results, user_id) ==
    SumPoints(results, {r \in 1..Len(results) : results[r].user_id = user_id})

GamesPlayedIn(results, user_id) ==
    Cardinality({r \in 1..Len(results) : results[r].user_id = user_id})

\* get_user_total_points summing the results of every user
get_user_total_points_unfiltered(user_id) ==
    SumPoints(game_results, 1..Len(game_results))

get_user_total_points(user_id) == TotalPointsIn(game_results, user_id)

get_user_games_played(user_id) == GamesPlayedIn(game_results, user_id)

get_reward(reward_id) == FirstOf({r \in 1..Len(rewards) : r = reward_id})

\* ------------------------------------------------------------------ games
Multiplier == 5

CreateGame(points_reward, questions) ==
    /\ Len(games) < MaxGames
    /\ Len(game_questions) + Len(questions) <= MaxQuestions
    /\ LET game_id == Len(games) + 1
       IN  /\ games' = Append(games, [points_reward |-> points_reward * Multiplier])
           /\ game_questions' = game_questions \o
                  [i \in 1..Len(questions) |->
                      [game_id |-> game_id, correct_answer |-> questions[i],
                       order_index |-> i - 1]]
    /\ UNCHANGED <<users, game_results, rewards, reward_claims, sess, last, reply>>

\* ---------------------------------------------------------------- scoring
\* answers.get(key) is truthy: the key is present and its value is not ""
Truthy(answers, key) == key \in DOMAIN answers /\ answers[key] # ""

\* user_answer and user_answer == question.correct_answer
IsCorrect(answers, q) ==
    /\ Truthy(answers, Str(q))
    /\ answers[Str(q)] = game_questions[q].correct_answer

\* correct_answers after the loop over the questions
CorrectCount(answers, questions) ==
    Cardinality({i \in 1..Len(questions) : IsCorrect(answers, questions[i])})

\* score_percentage = (correct_answers / len(questions)) * 100
ScorePercentage(correct_answers, n) ==
    FloatMulInt(IntTrueDiv(correct_answers, n), 100)

\* points_earned = int((score_percentage / 100) * game.points_reward)
PointsEarned(score_percentage, points_reward) ==
    FloatTrunc(FloatMulInt(FloatDivInt(score_percentage, 100), points_reward))

\* The row create_game_result inserts.  Column score is declared Integer, but
\* SQLite keeps a bound float that has a fractional part as it is (and stores
\* one without as the integer of the same value): the row carries the float.
create_game_result(user_id, game_id, score, total_points) ==
    [user_id |-> user_id, game_id |-> game_id, score |-> score,
     total_points |-> total_points]

\* create_game_result called on its own: the row is inserted as given
CreateGameResult(user_id, game_id, score, total_points) ==
    /\ Len(game_results) < MaxResults
    /\ game_results' = Append(game_results,
           create_game_result(user_id, game_id, FloatOfInt(score), total_points))
    /\ UNCHANGED <<users, games, game_questions, rewards, reward_claims, sess, last, reply>>

\* submit_game_answers that scores a repeated submission again and stores the
\* new score and points in the existing row
SubmitGameAnswersRescore(game_id, user_id, answers) ==
    LET questions        == get_game_questions(game_id)
        existing_result  == get_user_game_results(user_id, game_id)
        correct_answers  == CorrectCount(answers, questions)
        score_percentage == ScorePercentage(correct_answers, Len(questions))
        points_earned    == PointsEarned(score_percentage, games[game_id].points_reward)
    IN  /\ IF get_game(game_id) = None \/ Len(questions) = 0
           THEN /\ last' = Call(user_id, game_id, None, FALSE)
                /\ UNCHANGED game_results
           ELSE IF existing_result # None
           THEN /\ last' = Call(user_id, game_id, existing_result, FALSE)
                /\ game_results' = [game_results EXCEPT ![existing_result] =
                       create_game_result(user_id, game_id, score_percentage, points_earned)]
           ELSE /\ Len(game_results) < MaxResults
                /\ game_results' = Append(game_results,
                       create_game_result(user_id, game_id, score_percentage, points_earned))
                /\ last' = Call(user_id, game_id, Len(game_results) + 1, TRUE)
        /\ UNCHANGED <<users, games, game_questions, rewards, reward_claims, sess, reply>>

\* submit_game_answers that guards the division instead of refusing a game
\* without questions: such a game is scored 0 and its result is stored
SubmitGameAnswersScoreEmpty(game_id, user_id, answers) ==
    LET questions        == get_game_questions(game_id)
        existing_result  == get_user_game_results(user_id, game_id)
        correct_answers  == CorrectCount(answers, questions)
        score_percentage == IF Len(questions) = 0 THEN FloatZero
                            ELSE ScorePercentage(correct_answers, Len(questions))
        points_earned    == PointsEarned(score_percentage, games[game_id].points_reward)
    IN  /\ IF get_game(game_id) = None
           THEN /\ last' = Call(user_id, game_id, None, FALSE)
                /\ UNCHANGED game_results
           ELSE IF existing_result # None
           THEN /\ last' = Call(user_id, game_id, existing_result, FALSE)
                /\ UNCHANGED game_results
           ELSE /\ Len(game_results) < MaxResults
                /\ game_results' = Append(game_results,
                       create_game_result(user_id, game_id, score_percentage, points_earned))
                /\ last' = Call(user_id, game_id, Len(game_results) + 1, TRUE)
        /\ UNCHANGED <<users, games, game_questions, rewards, reward_claims, sess, reply>>

SubmitGameAnswers(game_id, user_id, answers) ==
    LET questions        == get_game_questions(game_id)
        existing_result  == get_user_game_results(user_id, game_id)
        correct_answers  == CorrectCount(answers, questions)
        score_percentage == ScorePercentage(correct_answers, Len(questions))
        points_earned    == PointsEarned(score_percentage, games[game_id].points_reward)
    IN  /\ IF get_game(game_id) = None \/ Len(questions) = 0
           THEN /\ last' = Call(user_id, game_id, None, FALSE)
                /\ UNCHANGED game_results
           ELSE IF existing_result # None
           THEN /\ last' = Call(user_id, game_id, existing_result, FALSE)
                /\ UNCHANGED game_results
           ELSE /\ Len(game_results) < MaxResults
                /\ game_results' = Append(game_results,
                       create_game_result(user_id, game_id, score_percentage, points_earned))
                /\ last' = Call(user_id, game_id, Len(game_results) + 1, TRUE)
        /\ UNCHANGED <<users, games, game_questions, rewards, reward_claims, sess, reply>>

\* ----------------------------------------- submit_game_answers step by step
\* The lookups of submit_game_answers (game, questions, existing result) and
\* the scoring: the request returns at once, or goes on to create_game_result
\* with the score and the points it has computed.
SubmitLookup(s, game_id, user_id, answers) ==
    LET questions        == get_game_questions(game_id)
        existing_result  == get_user_game_results(user_id, game_id)
        correct_answers  == CorrectCount(answers, questions)
        score_percentage == ScorePercentage(correct_answers, Len(questions))
        points_earned    == PointsEarned(score_percentage, games[game_id].points_reward)
    IN  /\ sess[s].pc = "idle"
        /\ IF get_game(game_id) = None \/ Len(questions) = 0
           THEN /\ last' = Call(user_id, game_id, None, FALSE)
                /\ UNCHANGED sess
           ELSE IF existing_result # None
           THEN /\ last' = Call(user_id, game_id, existing_result, FALSE)
                /\ UNCHANGED sess
           ELSE /\ Len(game_results)
                      + Cardinality({t \in Sessions : sess[t].pc = "scored"}) < MaxResults
                /\ sess' = [sess EXCEPT ![s] = [IdleSession EXCEPT !.pc = "scored",
                               !.user_id = user_id, !.game_id = game_id,
                               !.score = score_percentage, !.total_points = points_earned]]
                /\ UNCHANGED last
        /\ UNCHANGED <<tables, reply>>

\* create_game_result: db.add(db_result); db.commit(); the row is returned
SubmitInsert(s) ==
    /\ sess[s].pc = "scored"
    /\ game_results' = Append(game_results,
           create_game_result(sess[s].user_id, sess[s].game_id,
                              sess[s].score, sess[s].total_points))
    /\ last' = Call(sess[s].user_id, sess[s].game_id, Len(game_results) + 1, TRUE)
    /\ sess' = [sess EXCEPT ![s] = IdleSession]
    /\ UNCHANGED <<users, games, game_questions, rewards, reward_claims, reply>>

\* ---------------------------------------------------------------- rewards
CreateReward(points_required, stock_quantity) ==
    /\ Len(rewards) < MaxRewards
    /\ rewards' = Append(rewards, [points_required |-> points_required,
                                   stock_quantity  |-> stock_quantity,
                                   is_available    |-> TRUE])
    /\ UNCHANGED <<users, games, game_questions, game_results, reward_claims, sess, last, reply>>

UpdateRewardStock(reward_id, new_stock) ==
    /\ rewards' = IF get_reward(reward_id) = None THEN rewards
                  ELSE [rewards EXCEPT ![reward_id] =
                           [@ EXCEPT !.stock_quantity = new_stock,
                                     !.is_available = IF new_stock <= 0 THEN FALSE ELSE @]]
    /\ UNCHANGED <<users, games, game_questions, game_results, reward_claims, sess, last, reply>>

\* the RewardClaim that create_reward_claim adds to its session
NewClaim(user_id, reward_id) ==
    [user_id |-> user_id, reward_id |-> reward_id, status |-> "pending"]

\* the stock update with the availability test "< 0" in place of "<= 0"
ClaimedRewardLateFlip(reward) ==
    IF reward.stock_quantity > 0
    THEN [reward EXCEPT !.stock_quantity = @ - 1,
                        !.is_available = IF reward.stock_quantity - 1 < 0 THEN FALSE ELSE @]
    ELSE reward

\* "Update reward stock": the loaded reward after the stock update
ClaimedReward(reward) ==
    IF reward.stock_quantity > 0
    THEN [reward EXCEPT !.stock_quantity = @ - 1,
                        !.is_available = IF reward.stock_quantity - 1 <= 0 THEN FALSE ELSE @]
    ELSE reward

\* create_reward_claim that also takes the reward's price off the user's points
CreateRewardClaimDebiting(user_id, reward_id) ==
    LET mine  == {r \in 1..Len(game_results) : game_results[r].user_id = user_id}
        price == IF get_reward(reward_id) = None THEN 0
                 ELSE rewards[reward_id].points_required
    IN  /\ Len(reward_claims) < MaxClaims
        /\ reward_claims' = Append(reward_claims, NewClaim(user_id, reward_id))
        /\ rewards' = IF get_reward(reward_id) = None THEN rewards
                      ELSE [rewards EXCEPT ![reward_id] = ClaimedReward(@)]
        /\ game_results' = IF mine = {} THEN game_results
                           ELSE [game_results EXCEPT
                                    ![FirstOf(mine)].total_points = @ - price]
        /\ UNCHANGED <<users, games, game_questions, sess, last, reply>>

\* create_reward_claim run by one request with no other in progress
CreateRewardClaim(user_id, reward_id) ==
    /\ Len(reward_claims) < MaxClaims
    /\ reward_claims' = Append(reward_claims, NewClaim(user_id, reward_id))
    /\ rewards' = IF get_reward(reward_id) = None THEN rewards
                  ELSE [rewards EXCEPT ![reward_id] = ClaimedReward(@)]
    /\ UNCHANGED <<users, games, game_questions, game_results, sess, last, reply>>

\* ----------------------------------------- create_reward_claim step by step
\* Each request has its own session.  Objects added to or changed in a session
\* reach the tables only at db.commit(); a request that ends before its commit
\* closes its session, which discards them.
InProgress == {s \in Sessions : sess[s].pc # "idle"}

\* db.add(db_claim) on a session that writes each added object through at once
ClaimAddAutocommit(s, user_id, reward_id) ==
    /\ sess[s].pc = "idle"
    /\ Len(reward_claims) + Cardinality(InProgress) < MaxClaims
    /\ sess' = [sess EXCEPT ![s] = [IdleSession EXCEPT !.pc = "added",
                                       !.user_id = user_id, !.reward_id = reward_id]]
    /\ reward_claims' = Append(reward_claims, NewClaim(user_id, reward_id))
    /\ UNCHANGED <<users, games, game_questions, game_results, rewards, last, reply>>

\* db.add(db_claim)
ClaimAdd(s, user_id, reward_id) ==
    /\ sess[s].pc = "idle"
    /\ Len(reward_claims) + Cardinality(InProgress) < MaxClaims
    /\ sess' = [sess EXCEPT ![s] = [IdleSession EXCEPT !.pc = "added",
                                       !.user_id = user_id, !.reward_id = reward_id]]
    /\ UNCHANGED <<tables, last, reply>>

\* reward = get_reward(db, reward_id): the row is read into the session
ClaimGetReward(s) ==
    /\ sess[s].pc = "added"
    /\ LET reward_id == sess[s].reward_id
       IN  sess' = [sess EXCEPT ![s] =
              IF get_reward(reward_id) = None
              THEN [@ EXCEPT !.pc = "loaded"]
              ELSE [@ EXCEPT !.pc = "loaded", !.found = TRUE,
                       !.stock_quantity = rewards[reward_id].stock_quantity,
                       !.is_available = rewards[reward_id].is_available]]
    /\ UNCHANGED <<tables, last, reply>>

\* if reward and reward.stock_quantity > 0: ..., on the session's copy
ClaimUpdateStock(s) ==
    /\ sess[s].pc = "loaded"
    /\ LET loaded  == [stock_quantity |-> sess[s].stock_quantity,
                       is_available |-> sess[s].is_available]
           updated == IF sess[s].found THEN ClaimedReward(loaded) ELSE loaded
       IN  sess' = [sess EXCEPT ![s] = [@ EXCEPT !.pc = "updated",
                       !.stock_quantity = updated.stock_quantity,
                       !.is_available = updated.is_available,
                       !.dirty_stock = updated.stock_quantity # loaded.stock_quantity,
                       !.dirty_available = updated.is_available # loaded.is_available]]
    /\ UNCHANGED <<tables, last, reply>>

\* the tables after the session's flush: INSERT of the claim, UPDATE of the
\* reward's changed columns to the values the session holds
Flushed(s) ==
    [reward_claims |-> Append(reward_claims, NewClaim(sess[s].user_id, sess[s].reward_id)),
     rewards |-> IF ~sess[s].found THEN rewards
                 ELSE [rewards EXCEPT ![sess[s].reward_id] =
                          [@ EXCEPT !.stock_quantity =
                                        IF sess[s].dirty_stock THEN sess[s].stock_quantity ELSE @,
                                    !.is_available =
                                        IF sess[s].dirty_available THEN sess[s].is_available ELSE @]]]

\* db.commit(): flush and commit in one write transaction, then return
ClaimCommit(s) ==
    /\ sess[s].pc = "updated"
    /\ reward_claims' = Flushed(s).reward_claims
    /\ rewards' = Flushed(s).rewards
    /\ sess' = [sess EXCEPT ![s] = IdleSession]
    /\ UNCHANGED <<users, games, game_questions, game_results, last, reply>>

\* the request ends before db.commit() (an exception, the process is killed):
\* get_db closes the session
Interrupt(s) ==
    /\ sess[s].pc # "idle"
    /\ sess' = [sess EXCEPT ![s] = IdleSession]
    /\ UNCHANGED <<tables, last, reply>>

\* ------------------------------------------------------------------ users
get_user(user_id) == FirstOf({u \in 1..Len(users) : u = user_id})

\* register refuses a password shorter than this
MinPasswordLength == 6

get_user_by_email(email) == FirstOf({u \in 1..Len(users) : users[u].email = email})

get_user_by_phone(phone) == FirstOf({u \in 1..Len(users) : users[u].phone = phone})

\* EmailStr: the validated address keeps its local part and has its domain in
\* lower case
LowerCase == [c \in {"X"} |-> "x"]

Lower(c) == IF c \in DOMAIN LowerCase THEN LowerCase[c] ELSE c

EmailStr(email) == [local |-> email.local, domain |-> Lower(email.domain)]

\* unique=True of one column only: the index on email, none on phone and
\* telegram_id
IntegrityErrorEmailOnly(rows, w) ==
    \E v \in 1..Len(rows) : v # w /\ rows[v].email = rows[w].email

\* unique=True on email, phone and telegram_id: row w, inserted or updated,
\* repeats a value of another row and cannot be stored
IntegrityError(rows, w) ==
    \E v \in 1..Len(rows) :
        /\ v # w
        /\ \/ rows[v].email = rows[w].email
           \/ rows[v].phone = rows[w].phone
           \/ rows[v].telegram_id = rows[w].telegram_id

\* the row create_user adds for a UserCreate
create_user(user) ==
    [email |-> EmailStr(user.email), phone |-> user.phone,
     telegram_id |-> user.telegram_id, full_name |-> user.full_name]

\* create_user: one more row, ids given out in order and never reused; the
\* commit fails, and nothing is stored, when a unique column repeats
CreateUser(user) ==
    /\ LET rows == Append(users, create_user(user))
       IN  users' = IF IntegrityError(rows, Len(rows)) THEN users ELSE rows
    /\ UNCHANGED <<games, game_questions, game_results, rewards, reward_claims,
                   sess, last, reply>>

\* POST /register
Register(email, phone, telegram_id, password) ==
    LET args == <<email, phone, telegram_id>>
        user == [email |-> email, phone |-> phone, telegram_id |-> telegram_id,
                 full_name |-> "u"]
        rows == Append(users, create_user(user))
    IN  /\ IF Len(password) < MinPasswordLength
           THEN /\ reply' = Refusal("register", args, "password")
                /\ UNCHANGED users
           ELSE IF get_user_by_email(email) # None
           THEN /\ reply' = Refusal("register", args, "email")
                /\ UNCHANGED users
           ELSE IF get_user_by_phone(phone) # None
           THEN /\ reply' = Refusal("register", args, "phone")
                /\ UNCHANGED users
           ELSE IF IntegrityError(rows, Len(rows))
           THEN /\ reply' = Refusal("register", args, "exception")
                /\ UNCHANGED users
           ELSE /\ reply' = Reply("register", args, Len(rows))
                /\ users' = rows
        /\ UNCHANGED <<games, game_questions, game_results, rewards, reward_claims,
                       sess, last>>

\* update_user: every field of the row is set from user_update; the commit
\* fails, and the row stays as it was, when a unique column repeats
UpdateUser(user_id, user_update) ==
    LET db_user == get_user(user_id)
        rows    == [users EXCEPT ![db_user] = create_user(user_update)]
    IN  /\ users' = IF db_user = None \/ IntegrityError(rows, db_user) THEN users ELSE rows
        /\ UNCHANGED <<games, game_questions, game_results, rewards, reward_claims,
                       sess, last, reply>>

\* the profile of the n-th user to register when no two users give the same
\* email, phone or telegram id
Profile(n) ==
    [email |-> [local |-> Str(n), domain |-> "x"], phone |-> Str(n),
     telegram_id |-> Str(n), full_name |-> "u"]

\* ------------------------------------------------------- aggregate reads
GetUserTotalPoints(user_id) ==
    /\ reply' = Reply("get_user_total_points", <<user_id>>, get_user_total_points(user_id))
    /\ UNCHANGED <<tables, sess, last>>

GetUserGamesPlayed(user_id) ==
    /\ reply' = Reply("get_user_games_played", <<user_id>>, get_user_games_played(user_id))
    /\ UNCHANGED <<tables, sess, last>>

\* ------------------------------------------------------------ leaderboard
\* the users of an inner join with points_subquery: those that have results
JoinedUsersInner == {u \in 1..Len(users) : get_user_games_played(u) > 0}

\* the rows of User outer-joined with points_subquery: one for every user
JoinedUsers == 1..Len(users)

\* coalesce(points_subquery.c.total_points, 0), coalesce(...games_played, 0):
\* the subquery groups the results by user_id
LeaderboardData(user_id) ==
    [user_id      |-> user_id,
     full_name    |-> users[user_id].full_name,
     total_points |-> TotalPointsIn(game_results, user_id),
     games_played |-> GamesPlayedIn(game_results, user_id)]

\* order_by(desc('total_points')): every order of the joined rows in which
\* total_points does not increase; the order among equal totals is the engine's
Orderings ==
    LET n == Cardinality(JoinedUsers)
    IN  {o \in [1..n -> JoinedUsers] :
            /\ \A i, j \in 1..n : i # j => o[i] # o[j]
            /\ \A i \in 1..n : i < n =>
                  LeaderboardData(o[i]).total_points >= LeaderboardData(o[i + 1]).total_points}

\* the limit applied to the joined rows before they are ordered: the first
\* `limit` users in id order are kept, and these are then ordered
LimitedBeforeOrder(ordering, limit) ==
    SelectSeq(ordering, LAMBDA u : u <= limit)

\* limit(limit).all()
Limited(ordering, limit) == SubSeq(ordering, 1, Min(limit, Len(ordering)))

\* the list get_leaderboard builds from the query's rows: enumerate(..., 1)
get_leaderboard(ordering, limit) ==
    LET leaderboard_data == Limited(ordering, limit)
    IN  [i \in 1..Len(leaderboard_data) |->
            [rank |-> i] @@ LeaderboardData(leaderboard_data[i])]

GetLeaderboard(limit) ==
    /\ \E ordering \in Orderings :
          reply' = Listing("get_leaderboard", <<limit>>, get_leaderboard(ordering, limit))
    /\ UNCHANGED <<tables, sess, last>>

\* get_user_rank asks for this many entries
RankScanLimit == 1000

\* The places a user's row can take in the ordered rows: after every user with
\* more points and among those with as many (Orderings, seen from one row).
RankPositions(user_id) ==
    LET points(u) == TotalPointsIn(game_results, u)
        above     == {u \in JoinedUsers : points(u) > points(user_id)}
        level     == {u \in JoinedUsers : points(u) = points(user_id)}
    IN  (Cardinality(above) + 1)..(Cardinality(above) + Cardinality(level))

\* the scan of get_leaderboard(db, limit=1000) for the user's entry
get_user_rank(user_id, position) ==
    IF position <= RankScanLimit THEN position ELSE None

GetUserRank(user_id) ==
    /\ IF get_user(user_id) = None
       THEN reply' = Reply("get_user_rank", <<user_id>>, None)
       ELSE \E position \in RankPositions(user_id) :
               reply' = Reply("get_user_rank", <<user_id>>, get_user_rank(user_id, position))
    /\ UNCHANGED <<tables, sess, last>>

\* ---------------------------------------------------------- reward lists
\* get_rewards returns at most this many rewards unless asked otherwise
RewardsLimit == 100

\* the ids of the rewards get_rewards returns with skip = 0 and the default
\* limit, in the order of the table
get_rewards(available_only) ==
    LET Selected(r) == available_only =>
                          (rewards[r].is_available /\ rewards[r].stock_quantity > 0)
        ids == SelectSeq([r \in 1..Len(rewards) |-> r], Selected)
    IN  SubSeq(ids, 1, Min(RewardsLimit, Len(ids)))

GetRewards(available_only) ==
    /\ reply' = Listing("get_rewards", <<>>, get_rewards(available_only))
    /\ UNCHANGED <<tables, sess, last>>

\* ------------------------------------------------------- claim bookkeeping
can_user_claim_reward(user_id, reward_id) ==
    LET user_points == get_user_total_points(user_id)
        reward      == get_reward(reward_id)
    IN  IF \/ reward = None
           \/ ~rewards[reward].is_available
           \/ rewards[reward].stock_quantity <= 0
        THEN FALSE
        ELSE user_points >= rewards[reward].points_required

update_reward_claim_status(claim_id, status) ==
    LET db_claim == FirstOf({c \in 1..Len(reward_claims) : c = claim_id})
    IN  IF db_claim # None
        THEN [reward_claims EXCEPT ![db_claim].status = status]
        ELSE reward_claims

UpdateRewardClaimStatus(claim_id, status) ==
    /\ reward_claims' = update_reward_claim_status(claim_id, status)
    /\ UNCHANGED <<users, games, game_questions, game_results, rewards, sess, last, reply>>

\* --------------------------------------------------------- specifications
\* Spec: the quiz ledger, one request at a time
LedgerQuestionLists == {<<>>, <<"a">>, <<"a", "a">>}
LedgerAnswerDicts   == {<<>>} \cup {[k \in AnswerKeys |-> v] : v \in {"a", "b"}}
                              \cup {[k \in {"1"} |-> "a"]}

Next ==
    \/ \E qs \in LedgerQuestionLists : CreateGame(20, qs)
    \/ \E g \in GameIds, u \in UserIds, a \in LedgerAnswerDicts : SubmitGameAnswers(g, u, a)

Spec == Init /\ [][Next]_vars

\* SpecScoring: one user answers one game; every question list and every dict
NextScoring ==
    \/ \E p \in PointsBases, qs \in QuestionLists : Len(games) = 0 /\ CreateGame(p, qs)
    \/ \E a \in AnswerDicts : SubmitGameAnswers(1, 1, a)

SpecScoring == Init /\ [][NextScoring]_vars

\* SpecRedeem: the reward catalogue, one request at a time; users earn the
\* points of one game
NextRedeem ==
    \/ Len(games) = 0 /\ CreateGame(20, <<"a">>)
    \/ \E u \in Claimants, a \in {<<>>, [k \in {"1"} |-> "a"]} : SubmitGameAnswers(1, u, a)
    \/ \E c \in PointCosts, n \in StockValues : CreateReward(c, n)
    \/ \E r \in RewardIds, n \in StockValues : UpdateRewardStock(r, n)
    \/ \E u \in Claimants, r \in RewardIds : CreateRewardClaim(u, r)

SpecRedeem == Init /\ [][NextRedeem]_vars

\* SpecConcurrent: two requests run create_reward_claim, their steps interleaved
NextConcurrent ==
    \/ \E c \in PointCosts, n \in StockValues : CreateReward(c, n)
    \/ \E s \in Sessions, u \in Claimants, r \in RewardIds : ClaimAdd(s, u, r)
    \/ \E s \in Sessions : ClaimGetReward(s)
    \/ \E s \in Sessions : ClaimUpdateStock(s)
    \/ \E s \in Sessions : ClaimCommit(s)
    \/ \E s \in Sessions : Interrupt(s)

SpecConcurrent == Init /\ [][NextConcurrent]_vars

\* SpecPoints: result rows of any user, game and points are inserted, and a
\* user's points and games are read in every state
PointValues == {0, 50, 100}              \* create_game_result: total_points

NextPoints ==
    \/ \E u \in UserIds, g \in GameIds, p \in PointValues : CreateGameResult(u, g, 100, p)
    \/ \E u \in UserIds : GetUserTotalPoints(u)
    \/ \E u \in UserIds : GetUserGamesPlayed(u)

SpecPoints == Init /\ [][NextPoints]_vars

\* SpecBoard: users register and answer one game of two questions; the
\* leaderboard and the ranks are read in every state
Limits == 0..(MaxUsers + 1)

NextBoard ==
    \/ Len(users) < MaxUsers /\ CreateUser(Profile(Len(users) + 1))
    \/ Len(games) = 0 /\ CreateGame(20, <<"a", "a">>)
    \/ \E u \in UserIds, a \in LedgerAnswerDicts : SubmitGameAnswers(1, u, a)
    \/ \E k \in Limits : GetLeaderboard(k)
    \/ \E u \in UserIds : GetUserRank(u)

SpecBoard == Init /\ [][NextBoard]_vars

\* SpecRank: users register until there is one more than get_user_rank scans;
\* user 1 answers one game; then one rank is asked for (a read changes no
\* table, so a second read would see what the first saw)
NextRank ==
    \/ Len(users) <= RankScanLimit /\ CreateUser(Profile(Len(users) + 1))
    \/ Len(games) = 0 /\ CreateGame(20, <<"a">>)
    \/ SubmitGameAnswers(1, 1, [k \in {"1"} |-> "a"])
    \/ \E u \in {1, Len(users), Len(users) + 1} :
          Len(users) > RankScanLimit /\ reply.op = "" /\ GetUserRank(u)

SpecRank == Init /\ [][NextRank]_vars

\* SpecCatalogue: the reward catalogue and its claims under every argument,
\* one request at a time
StockArguments == {-1, 0, 1, 2}          \* RewardCreate.stock_quantity, new_stock
StatusValues   == {"pending", "approved", "rejected", "shipped"}
ClaimIds       == 1..(MaxClaims + 1)     \* one id more than can exist

NextCatalogue ==
    \/ \E c \in PointCosts, n \in StockArguments : CreateReward(c, n)
    \/ \E r \in RewardIds, n \in StockArguments : UpdateRewardStock(r, n)
    \/ \E u \in Claimants, r \in RewardIds : CreateRewardClaim(u, r)
    \/ \E c \in ClaimIds, st \in StatusValues : UpdateRewardClaimStatus(c, st)
    \/ \E available_only \in BOOLEAN : GetRewards(available_only)

SpecCatalogue == Init /\ [][NextCatalogue]_vars

\* SpecUsers: registrations and profile updates, one request at a time
Emails      == {[local |-> "a", domain |-> "x"], [local |-> "a", domain |-> "X"],
                [local |-> "b", domain |-> "x"]}
Phones      == {"1", "2", "3"}
TelegramIds == {"t1", "t2"}
Passwords   == {<<"a", "b", "c", "d", "e">>, <<"a", "b", "c", "d", "e", "f">>}
UserUpdates == [email : Emails, phone : Phones, telegram_id : TelegramIds,
                full_name : {"u"}]

NextUsers ==
    \/ \E e \in Emails, p \in Phones, t \in TelegramIds, pw \in Passwords :
          Register(e, p, t, pw)
    \/ \E u \in UserIds, user_update \in UserUpdates : UpdateUser(u, user_update)

SpecUsers == Init /\ [][NextUsers]_vars

\* SpecSubmit: two requests run submit_game_answers on one game, their
\* lookups and inserts interleaved
NextSubmit ==
    \/ Len(games) = 0 /\ CreateGame(20, <<"a">>)
    \/ \E s \in Sessions, u \in UserIds, a \in {<<>>, [k \in {"1"} |-> "a"]} :
          SubmitLookup(s, 1, u, a)
    \/ \E s \in Sessions : SubmitInsert(s)
    \/ \E s \in Sessions : Interrupt(s)

SpecSubmit == Init /\ [][NextSubmit]_vars

\* ----------------------------------------------------------------- claims
ResultsOf(user_id, game_id) ==
    {r \in 1..Len(game_results) :
        /\ game_results[r].user_id = user_id
        /\ game_results[r].game_id = game_id}

\* C1: after any sequence of submit_game_answers calls, each run to completion,
\* the ledger holds at most one GameResult for every (user_id, game_id) pair.
C1_OneResultPerUserAndGame ==
    \A u \in UserIds, g \in GameIds : Cardinality(ResultsOf(u, g)) <= 1

\* a second submission came back with the stored result while other results exist
C1_Witness ==
    /\ Len(game_results) = MaxResults
    /\ last.ret # None /\ ~last.new
    /\ Cardinality(ResultsOf(last.user_id, last.game_id)) = 1

\* C2: when a GameResult exists for (user, game), a further submit_game_answers
\* for the pair returns that result, with its score and total_points unchanged,
\* adds no GameResult and leaves the user's total points and games played as
\* they were.
C2_ResubmitReturnsExisting ==
    [][\A u \in UserIds, g \in GameIds :
          (/\ ResultsOf(u, g) # {}
           /\ games' = games
           /\ last'.user_id = u /\ last'.game_id = g)
          => /\ last'.ret \in ResultsOf(u, g)
             /\ ~last'.new
             /\ Len(game_results') = Len(game_results)
             /\ game_results'[last'.ret].score = game_results[last'.ret].score
             /\ game_results'[last'.ret].total_points = game_results[last'.ret].total_points
             /\ TotalPointsIn(game_results', u) = TotalPointsIn(game_results, u)
             /\ GamesPlayedIn(game_results', u) = GamesPlayedIn(game_results, u)
      ]_vars

\* a user who holds points submitted again and got the stored result back
C2_Witness ==
    /\ last.ret # None /\ ~last.new
    /\ game_results[last.ret].user_id = last.user_id
    /\ game_results[last.ret].game_id = last.game_id
    /\ get_user_total_points(last.user_id) > 0

\* committed stock of every reward is never negative
StockNeverNegative == \A r \in 1..Len(rewards) : rewards[r].stock_quantity >= 0

\* session s commits a claim row in this step
Commits(s) ==
    /\ sess[s].pc = "updated" /\ sess'[s].pc = "idle"
    /\ Len(reward_claims') = Len(reward_claims) + 1

\* C3: of two concurrent claims against a reward with stock_quantity = 1, exactly
\* one creates a RewardClaim and the other fails: a request that read stock 1
\* creates its claim only if the stock is still 1 when it commits; and
\* stock_quantity is never negative.
C3_ExactlyOneConcurrentClaimWins ==
    [][/\ \A s \in Sessions :
             (/\ Commits(s)
              /\ sess[s].found /\ sess[s].dirty_stock /\ sess[s].stock_quantity = 0)
             => rewards[sess[s].reward_id].stock_quantity = 1
       /\ StockNeverNegative'
      ]_vars

\* the step adds a claim row for reward r
AddsClaimOn(r) ==
    /\ Len(reward_claims') = Len(reward_claims) + 1
    /\ reward_claims'[Len(reward_claims')].reward_id = r

\* C4: a claim on a reward whose is_available is false or whose stock_quantity
\* is <= 0 fails: no RewardClaim is created and the reward is unchanged.
C4_UnavailableRewardIsNotClaimed ==
    [][\A r \in 1..Len(rewards) :
          (~rewards[r].is_available \/ rewards[r].stock_quantity <= 0)
          => ~AddsClaimOn(r)
      ]_vars

\* C5: a claim by a user whose total points are below the reward's
\* points_required fails: no RewardClaim is created, the reward is unchanged.
C5_InsufficientPointsIsNotClaimed ==
    [][\A r \in 1..Len(rewards), u \in Claimants :
          get_user_total_points(u) < rewards[r].points_required
          => ~(AddsClaimOn(r) /\ reward_claims'[Len(reward_claims')].user_id = u)
      ]_vars

\* C6: a claim naming a reward id for which no Reward exists creates no
\* RewardClaim; every RewardClaim references an existing Reward.
C6_ClaimsReferenceExistingRewards ==
    \A c \in 1..Len(reward_claims) : get_reward(reward_claims[c].reward_id) # None

\* C7: a claim on a reward with is_available true and stock_quantity = s > 0
\* creates exactly one RewardClaim, with status "pending", sets stock_quantity
\* to s - 1, sets is_available to false exactly when s - 1 = 0, and leaves
\* every other reward and every existing claim unchanged.
C7_SuccessfulClaimEffect ==
    [][\A r \in 1..Len(rewards) :
          (/\ AddsClaimOn(r)
           /\ rewards[r].is_available /\ rewards[r].stock_quantity > 0)
          => /\ SubSeq(reward_claims', 1, Len(reward_claims)) = reward_claims
             /\ reward_claims'[Len(reward_claims')].status = "pending"
             /\ rewards' = [rewards EXCEPT ![r] =
                               [@ EXCEPT !.stock_quantity = @ - 1,
                                         !.is_available = (rewards[r].stock_quantity - 1 # 0)]]
      ]_vars

\* the only claim took the last unit of a reward, which is no longer available
C7_Witness ==
    /\ Len(reward_claims) = 1
    /\ get_reward(reward_claims[1].reward_id) # None
    /\ reward_claims[1].status = "pending"
    /\ rewards[reward_claims[1].reward_id].stock_quantity = 0
    /\ ~rewards[reward_claims[1].reward_id].is_available
    /\ get_user_total_points(reward_claims[1].user_id) >= rewards[reward_claims[1].reward_id].points_required

\* C8: the claim operation is all-or-nothing.  Whatever a request has added or
\* changed before its commit is absent from the tables, and is still absent
\* when the request is interrupted; the only step of a claim that changes the
\* tables is its commit, which brings the claim row together with every
\* column the request changed (the decremented stock_quantity, the cleared
\* is_available) and changes nothing else.
C8_ClaimAllOrNothing ==
    [][tables' # tables =>
          \/ /\ Len(rewards') = Len(rewards) + 1
             /\ reward_claims' = reward_claims
          \/ \E s \in Sessions :
                /\ sess[s].pc = "updated" /\ sess'[s].pc = "idle"
                /\ reward_claims' =
                      Append(reward_claims, NewClaim(sess[s].user_id, sess[s].reward_id))
                /\ Len(rewards') = Len(rewards)
                /\ \A r \in 1..Len(rewards) :
                      /\ rewards'[r].points_required = rewards[r].points_required
                      /\ rewards'[r].stock_quantity =
                            IF sess[s].found /\ r = sess[s].reward_id /\ sess[s].dirty_stock
                            THEN sess[s].stock_quantity
                            ELSE rewards[r].stock_quantity
                      /\ rewards'[r].is_available =
                            IF sess[s].found /\ r = sess[s].reward_id /\ sess[s].dirty_available
                            THEN sess[s].is_available
                            ELSE rewards[r].is_available
      ]_vars

\* a request has decremented the stock in its session and not yet committed:
\* the tables hold neither its claim row nor the decrement
C8_Witness ==
    \E s \in Sessions :
        /\ sess[s].pc = "updated" /\ sess[s].dirty_stock /\ sess[s].dirty_available
        /\ reward_claims = <<>>
        /\ rewards[sess[s].reward_id].stock_quantity = sess[s].stock_quantity + 1
        /\ rewards[sess[s].reward_id].is_available

\* the value of a stored score lies in [0, 100] and has no fractional part
IsIntegerPercent(x) ==
    /\ FloatIsInt(x)
    /\ FloatTrunc(x) >= 0 /\ FloatTrunc(x) <= 100

\* the dict has, for every question of the list, exactly its correct answer
AllMatch(answers, questions) ==
    \A i \in 1..Len(questions) :
        /\ Str(questions[i]) \in DOMAIN answers
        /\ answers[Str(questions[i])] = game_questions[questions[i]].correct_answer

\* the dict has the correct answer of no question of the list
NoneMatch(answers, questions) ==
    \A i \in 1..Len(questions) :
        ~ /\ Str(questions[i]) \in DOMAIN answers
          /\ answers[Str(questions[i])] = game_questions[questions[i]].correct_answer

\* C9: for every quiz with N >= 1 questions and every answer mapping, the score
\* of the created GameResult is an integer in [0,100]; it is 100 when every
\* question's submitted answer matches, 0 when the mapping is empty or matches
\* no question.
C9_ScoreIsIntegerPercent ==
    [][\A a \in AnswerDicts :
          (SubmitGameAnswers(1, 1, a) /\ last'.new)
          => LET score == game_results'[last'.ret].score
                 qs    == get_game_questions(1)
             IN  /\ IsIntegerPercent(score)
                 /\ AllMatch(a, qs) => score = FloatOfInt(100)
                 /\ NoneMatch(a, qs) => score = FloatZero
      ]_vars

\* round(100 * c / n), halves up
RoundPercent(c, n) == (200 * c + n) \div (2 * n)

\* floor(scorePercent / 100 * points_reward)
FloorPoints(scorePercent, points_reward) == (scorePercent * points_reward) \div 100

\* C10: for every quiz with N >= 1 questions, every number c of correct answers
\* and every stored points_reward, total_points of the created GameResult is
\* floor(scorePercent / 100 * points_reward) with scorePercent =
\* round(100 * c / N).
C10_PointsFromRoundedPercent ==
    [][\A a \in AnswerDicts :
          (SubmitGameAnswers(1, 1, a) /\ last'.new)
          => LET qs == get_game_questions(1)
             IN  game_results'[last'.ret].total_points =
                    FloorPoints(RoundPercent(CorrectCount(a, qs), Len(qs)),
                                games[1].points_reward)
      ]_vars

\* C11: submitting answers for a game that exists and has no questions is
\* refused (no result is returned) before any division takes place: no
\* GameResult is created and no table changes.
C11_EmptyQuizIsRefused ==
    [][\A g \in GameIds :
          (/\ get_game(g) # None
           /\ Len(get_game_questions(g)) = 0
           /\ games' = games
           /\ last'.game_id = g)
          => /\ last'.ret = None
             /\ ~last'.new
             /\ tables' = tables
      ]_vars

\* a game without questions exists, answers were submitted for it and refused
C11_Witness ==
    /\ get_game(last.game_id) # None
    /\ Len(get_game_questions(last.game_id)) = 0
    /\ last.user_id \in UserIds
    /\ last.ret = None
    /\ game_results = <<>>

\* the questions of the list whose id has an entry in the dict that equals,
\* as a string, the question's correct answer
ExactMatches(answers, questions) ==
    {i \in 1..Len(questions) :
        /\ Str(questions[i]) \in DOMAIN answers
        /\ answers[Str(questions[i])] = game_questions[questions[i]].correct_answer}

\* C12: in scoring, a question counts as correct if and only if the answer
\* mapping has an entry for the question's id that is exactly equal to the
\* question's correct_answer (the empty string included); a question with no
\* entry counts as incorrect.  The stored score is the one of that count.
C12_CorrectIffExactMatch ==
    [][\A a \in AnswerDicts :
          (SubmitGameAnswers(1, 1, a) /\ last'.new)
          => LET qs == get_game_questions(1)
             IN  /\ CorrectCount(a, qs) = Cardinality(ExactMatches(a, qs))
                 /\ game_results'[last'.ret].score =
                       ScorePercentage(Cardinality(ExactMatches(a, qs)), Len(qs))
      ]_vars

\* the points, and the number, of the first k result rows that are the user's
RECURSIVE PointsUpTo(_, _)
PointsUpTo(user_id, k) ==
    IF k = 0 THEN 0
    ELSE PointsUpTo(user_id, k - 1)
         + (IF game_results[k].user_id = user_id THEN game_results[k].total_points ELSE 0)

RECURSIVE ResultsUpTo(_, _)
ResultsUpTo(user_id, k) ==
    IF k = 0 THEN 0
    ELSE ResultsUpTo(user_id, k - 1) + (IF game_results[k].user_id = user_id THEN 1 ELSE 0)

\* C13: in every reachable state and for every user id, get_user_total_points
\* returns the sum of total_points over the user's GameResults (0 when there
\* are none) and get_user_games_played returns their number; neither changes
\* a table.
C13_PointsAndGamesOfUser ==
    [][/\ \A u \in UserIds :
             /\ ENABLED GetUserTotalPoints(u)
             /\ ENABLED GetUserGamesPlayed(u)
       /\ (reply' # reply /\ reply'.op = "get_user_total_points")
             => /\ reply'.ret = PointsUpTo(reply'.args[1], Len(game_results))
                /\ tables' = tables
       /\ (reply' # reply /\ reply'.op = "get_user_games_played")
             => /\ reply'.ret = ResultsUpTo(reply'.args[1], Len(game_results))
                /\ tables' = tables
      ]_vars

\* the points of a user with two results were read
C13_Witness ==
    /\ reply.op = "get_user_total_points"
    /\ ResultsUpTo(reply.args[1], Len(game_results)) = 2
    /\ reply.ret = 150
    /\ Len(game_results) = 2

\* the points of a user without results were read while another user has two
C13_WitnessNoResults ==
    /\ reply.op = "get_user_total_points"
    /\ ResultsUpTo(reply.args[1], Len(game_results)) = 0
    /\ reply.ret = 0
    /\ Len(game_results) = 2

\* a step that returns a leaderboard
LeaderboardReturned ==
    /\ reply'.op = "get_leaderboard"
    /\ \/ reply.op # "get_leaderboard"
       \/ reply'.args # reply.args
       \/ reply'.rows # reply.rows

\* C14: the sequence returned by get_leaderboard is sorted in non-increasing
\* order of total_points, each entry's total_points and games_played are the
\* sum and the count of that user's results, and when limit is at least the
\* number of users every user appears exactly once, a user without results
\* with total_points = 0 and games_played = 0.
C14_LeaderboardSortedAndComplete ==
    [][LeaderboardReturned =>
            LET leaderboard == reply'.rows
                limit       == reply'.args[1]
            IN  /\ \A i, j \in 1..Len(leaderboard) :
                      i < j => leaderboard[i].total_points >= leaderboard[j].total_points
                /\ \A i \in 1..Len(leaderboard) :
                      /\ leaderboard[i].total_points =
                            PointsUpTo(leaderboard[i].user_id, Len(game_results))
                      /\ leaderboard[i].games_played =
                            ResultsUpTo(leaderboard[i].user_id, Len(game_results))
                /\ limit >= Len(users) =>
                      \A u \in 1..Len(users) :
                         /\ Cardinality({i \in 1..Len(leaderboard) :
                                            leaderboard[i].user_id = u}) = 1
                         /\ ResultsUpTo(u, Len(game_results)) = 0 =>
                               \E i \in 1..Len(leaderboard) :
                                  /\ leaderboard[i].user_id = u
                                  /\ leaderboard[i].total_points = 0
                                  /\ leaderboard[i].games_played = 0
      ]_vars

\* the whole leaderboard of two users was returned: one has points, the other
\* has no result and is listed with 0 and 0
C14_Witness ==
    /\ reply.op = "get_leaderboard"
    /\ reply.args[1] >= Len(users)
    /\ Len(reply.rows) = 2
    /\ reply.rows[1].total_points > 0 /\ reply.rows[1].games_played = 1
    /\ reply.rows[2].total_points = 0 /\ reply.rows[2].games_played = 0
    /\ ResultsUpTo(reply.rows[2].user_id, Len(game_results)) = 0

\* the sum of games_played over the first k entries of a leaderboard
RECURSIVE GamesPlayedSum(_, _)
GamesPlayedSum(leaderboard, k) ==
    IF k = 0 THEN 0
    ELSE GamesPlayedSum(leaderboard, k - 1) + leaderboard[k].games_played

\* C15: in every state reached through user creation and submit_game_answers,
\* the sum of games_played over all entries of the leaderboard (a leaderboard
\* that is not cut short by its limit) equals the number of GameResults.
C15_GamesPlayedSumIsResultCount ==
    [][(LeaderboardReturned /\ reply'.args[1] >= Len(users))
          => GamesPlayedSum(reply'.rows, Len(reply'.rows)) = Len(game_results)
      ]_vars

\* C16: for every limit k >= 0 get_leaderboard(k) returns min(k, number of
\* users) entries, the entry at position i carries rank i, and the entries are
\* the first of a ranking of all users: they are sorted, no user appears
\* twice, and no user left out has more points than a user returned.
C16_LimitKeepsTopRanks ==
    [][LeaderboardReturned =>
          LET leaderboard == reply'.rows
              limit       == reply'.args[1]
              returned    == {leaderboard[i].user_id : i \in 1..Len(leaderboard)}
          IN  /\ Len(leaderboard) = Min(limit, Len(users))
              /\ \A i \in 1..Len(leaderboard) : leaderboard[i].rank = i
              /\ Cardinality(returned) = Len(leaderboard)
              /\ returned \subseteq 1..Len(users)
              /\ \A i, j \in 1..Len(leaderboard) :
                    i < j => leaderboard[i].total_points >= leaderboard[j].total_points
              /\ \A i \in 1..Len(leaderboard) : \A u \in (1..Len(users)) \ returned :
                    leaderboard[i].total_points >= PointsUpTo(u, Len(game_results))
      ]_vars

\* two users have different totals and the leaderboard of limit 1 was
\* returned: it holds the user with more points, with rank 1
C16_Witness ==
    /\ reply.op = "get_leaderboard"
    /\ reply.args[1] = 1
    /\ Len(users) = 2
    /\ Len(reply.rows) = 1
    /\ reply.rows[1].rank = 1
    /\ reply.rows[1].user_id = 2
    /\ PointsUpTo(2, Len(game_results)) > PointsUpTo(1, Len(game_results))
    /\ PointsUpTo(1, Len(game_results)) > 0

\* a step that returns a rank
RankReturned ==
    /\ reply'.op = "get_user_rank"
    /\ \/ reply.op # "get_user_rank"
       \/ reply'.args # reply.args
       \/ reply'.ret # reply.ret

\* C17: get_user_rank(user_id) returns None if and only if no user with that
\* id exists; for an existing user it returns the user's 1-based position in
\* the full leaderboard, whatever the number of users: every user with strictly
\* more total points has a smaller rank.
C17_RankOfEveryUser ==
    [][RankReturned =>
          LET user_id == reply'.args[1]
              rank    == reply'.ret
              more    == {u \in 1..Len(users) :
                            PointsUpTo(u, Len(game_results)) >
                               PointsUpTo(user_id, Len(game_results))}
          IN  /\ (rank = None) <=> (user_id \notin 1..Len(users))
              /\ rank # None =>
                    /\ rank \in 1..Len(users)
                    /\ rank > Cardinality(more)
                    /\ rank <= Len(users) -
                          Cardinality({u \in 1..Len(users) :
                             PointsUpTo(u, Len(game_results)) <
                                PointsUpTo(user_id, Len(game_results))})
      ]_vars

\* the checks of a claim, on the present tables
ClaimWouldSucceed(user_id, reward_id) ==
    /\ reward_id \in 1..Len(rewards)
    /\ rewards[reward_id].is_available
    /\ rewards[reward_id].stock_quantity > 0
    /\ PointsUpTo(user_id, Len(game_results)) >= rewards[reward_id].points_required

\* C18: can_user_claim_reward returns true exactly when the reward exists, is
\* available, has stock_quantity > 0 and the user's total points reach
\* points_required; whenever it returns false, a claim by that user on that
\* reward creates no RewardClaim.
C18_CanClaimAgreesWithClaim ==
    [][\A u \in Claimants, r \in RewardIds :
          /\ can_user_claim_reward(u, r) <=> ClaimWouldSucceed(u, r)
          /\ (CreateRewardClaim(u, r) /\ ~can_user_claim_reward(u, r))
                => reward_claims' = reward_claims
      ]_vars

\* C19: over any sequence of update_reward_claim_status calls a claim's status
\* is always one of pending, approved, rejected, and it changes only from
\* pending to approved or from pending to rejected: an approved or rejected
\* claim never changes again, and any other request leaves the claim as it is.
C19_StatusTransitions ==
    [][/\ \A c \in 1..Len(reward_claims') :
             reward_claims'[c].status \in {"pending", "approved", "rejected"}
       /\ \A c \in 1..Len(reward_claims) :
             reward_claims'[c].status # reward_claims[c].status
                => /\ reward_claims[c].status = "pending"
                   /\ reward_claims'[c].status \in {"approved", "rejected"}
      ]_vars

\* C20: in every state reached through create_reward, update_reward_stock and
\* create_reward_claim with any integer arguments, every reward's
\* stock_quantity is a non-negative integer, and after a reward is created its
\* stock_quantity changes only through a claim, by exactly -1 per claim.
C20_StockOnlyThroughClaims ==
    [][/\ \A r \in 1..Len(rewards') : rewards'[r].stock_quantity >= 0
       /\ \A r \in 1..Len(rewards) :
             rewards'[r].stock_quantity # rewards[r].stock_quantity
                => /\ rewards'[r].stock_quantity = rewards[r].stock_quantity - 1
                   /\ Len(reward_claims') = Len(reward_claims) + 1
                   /\ reward_claims'[Len(reward_claims')].reward_id = r
      ]_vars

\* no two users share an email, a phone or a telegram id
NoSharedIdentity(rows) ==
    \A u, v \in 1..Len(rows) :
        u # v => /\ rows[u].email # rows[v].email
                 /\ rows[u].phone # rows[v].phone
                 /\ rows[u].telegram_id # rows[v].telegram_id

\* a step in which a registration is answered
RegisterReturned == reply'.op = "register" /\ reply' # reply

\* C21: after any sequence of registrations and profile updates no two users
\* share an email, a phone or a telegram id; a registration whose email (as an
\* address: the domain in any case) or phone is already taken is answered
\* with an error and leaves the users as they were.
C21_UniqueIdentity ==
    [][/\ NoSharedIdentity(users')
       /\ RegisterReturned =>
            LET email == reply'.args[1]
                phone == reply'.args[2]
            IN  (\E u \in 1..Len(users) :
                    \/ users[u].email = [email EXCEPT !.domain = Lower(@)]
                    \/ users[u].phone = phone)
                => /\ reply'.error # ""
                   /\ users' = users
      ]_vars

\* two users are registered and a registration with the email of one of them,
\* a free phone and a free telegram id was refused for its email
C21_Witness ==
    /\ Len(users) = 2
    /\ reply.op = "register"
    /\ reply.error = "email"
    /\ \E u \in 1..Len(users) : users[u].email = reply.args[1]
    /\ \A u \in 1..Len(users) : users[u].phone # reply.args[2]

\* C22: in every state reached through create_reward, update_reward_stock and
\* create_reward_claim, a reward with stock_quantity <= 0 has is_available
\* false; get_rewards(available_only=True) returns exactly the rewards with
\* is_available true and stock_quantity > 0, and no reward it leaves out for
\* its stock has is_available true.
C22_NoStockMeansUnavailable ==
    LET listed == {get_rewards(TRUE)[i] : i \in 1..Len(get_rewards(TRUE))}
    IN  /\ \A r \in 1..Len(rewards) :
              rewards[r].stock_quantity <= 0 => ~rewards[r].is_available
        /\ listed = {r \in 1..Len(rewards) :
                        rewards[r].is_available /\ rewards[r].stock_quantity > 0}
        /\ \A r \in (1..Len(rewards)) \ listed : ~rewards[r].is_available

\* the sum of points_reward over the first k games
RECURSIVE RewardsUpTo(_)
RewardsUpTo(k) == IF k = 0 THEN 0 ELSE RewardsUpTo(k - 1) + games[k].points_reward

\* C23: when submit_game_answers calls for the same user and game are
\* interleaved (both look for an existing result before either inserts), at
\* most one GameResult is created for the pair, and the user's total points
\* hold at most one award for each game.
C23_OneResultUnderInterleaving ==
    \A u \in UserIds :
        /\ \A g \in 1..Len(games) :
              Cardinality({r \in 1..Len(game_results) :
                              /\ game_results[r].user_id = u
                              /\ game_results[r].game_id = g}) <= 1
        /\ PointsUpTo(u, Len(game_results)) <= RewardsUpTo(Len(games))

\* the summed points_required of the rewards that the user's claims name
RECURSIVE PointsClaimedUpTo(_, _)
PointsClaimedUpTo(user_id, k) ==
    IF k = 0 THEN 0
    ELSE PointsClaimedUpTo(user_id, k - 1)
         + (IF /\ reward_claims[k].user_id = user_id
               /\ reward_claims[k].reward_id \in 1..Len(rewards)
            THEN rewards[reward_claims[k].reward_id].points_required ELSE 0)

\* C24: a step that creates a reward claim changes no GameResult, and every
\* user's total points are the same after it as before it.
C24_ClaimLeavesPointsAlone ==
    [][Len(reward_claims') > Len(reward_claims) =>
          /\ game_results' = game_results
          /\ \A u \in UserIds :
                TotalPointsIn(game_results', u) = TotalPointsIn(game_results, u)]_vars

\* a user whose claims name rewards costing more, in sum, than the points the
\* user has earned: the claims are not bounded by the points
C24_Witness ==
    \E u \in Claimants :
        /\ get_user_total_points(u) > 0
        /\ PointsClaimedUpTo(u, Len(reward_claims)) > get_user_total_points(u)

=============================================================================
